---- MODULE Spec2Model ----
(***************************************************************************)
(* Model of the authentication and authorization core of the HR API:       *)
(* app/auth.py (hashing, token issue and verification), app/main.py (the    *)
(* access guard, register, login and the HR-gated mutation endpoints),      *)
(* app/crud.py and app/candidates_router.py (the session-based CRUD layer). *)
(*                                                                         *)
(* Time is counted in ticks, TicksPerSecond ticks to the second, because    *)
(* datetime.utcnow() has sub-second resolution while the "exp" claim of a   *)
(* token is a whole number of seconds.                                      *)
(***************************************************************************)
EXTENDS Integers, Sequences, FiniteSets, TLC

VARIABLES env, phase, config, now, users, candidates, vacancies, regs,
          issued, digests, resp

vars == <<env, phase, config, now, users, candidates, vacancies, regs,
          issued, digests, resp>>

-----------------------------------------------------------------------------
(* Bounds of the model *)

TicksPerSecond == 2
MaxIssued == 1
MaxLogins == 2
MaxDigests == 2
MaxRowId == 2

Handles == {"alice", "bobby"}
Emails == {"alice@hr.example", "bobby@hr.example"}
Passwords == {"password123", "password456"}
Salts == {"saltA", "saltB"}
CandidateEmails == {"carol@cv.example", "dave@cv.example"}
Statuses == {"new", "hired"}
RegSlots == {1, 2}

-----------------------------------------------------------------------------
(* Process configuration, read once at import time *)

DefaultSecretKey == "your-secret-key-change-in-production"
DefaultExpireMinutes == 30
DefaultPasswordSalt == "hr_system_salt_2024"
LoginExpireMinutes == 30

\* The environments the process may be started in.  A value for
\* ACCESS_TOKEN_EXPIRE_MINUTES is the decimal string of the variable,
\* written as its sequence of digits.
Envs ==
    { [n \in {} |-> ""],
      [n \in {"SECRET_KEY", "ACCESS_TOKEN_EXPIRE_MINUTES"} |->
          IF n = "SECRET_KEY" THEN "prod-signing-secret" ELSE <<1>>] }

\* os.getenv(name, default)
getenv(e, name, default) == IF name \in DOMAIN e THEN e[name] ELSE default

\* int(s) for a decimal string given as its digits
RECURSIVE int(_)
int(s) == IF Len(s) = 0 THEN 0
          ELSE 10 * int(SubSeq(s, 1, Len(s) - 1)) + s[Len(s)]

\* The PyJWT releases `import jwt` may bind; the repository pins none.
\* From 2.10.0 on, jwt.decode also validates the "sub" claim.
JwtReleases == {"2.9.0", "2.10.0"}
ValidatesSub(release) == release = "2.10.0"

\* The module-level state of app/auth.py after its import (app/main.py
\* repeats the first lines with the same defaults): the jwt module bound by
\* `import jwt` and the constants read from the environment.
LoadConfig(e, release) ==
    [ jwt |-> release,
      SECRET_KEY |-> getenv(e, "SECRET_KEY", DefaultSecretKey),
      ACCESS_TOKEN_EXPIRE_MINUTES |->
          IF "ACCESS_TOKEN_EXPIRE_MINUTES" \in DOMAIN e
          THEN int(e["ACCESS_TOKEN_EXPIRE_MINUTES"])
          ELSE DefaultExpireMinutes,
      PASSWORD_SALT |-> getenv(e, "PASSWORD_SALT", DefaultPasswordSalt) ]

NoConfig == [ jwt |-> "", SECRET_KEY |-> "",
              ACCESS_TOKEN_EXPIRE_MINUTES |-> 0, PASSWORD_SALT |-> "" ]

-----------------------------------------------------------------------------
(* Time *)

\* timedelta(minutes=m), in ticks
minutes(m) == m * 60 * TicksPerSecond

\* timedelta(seconds=s), in ticks
seconds(s) == s * TicksPerSecond

\* The instants the clock is sampled at: the first seconds after process
\* start and the seconds in which a token issued by login then expires.
Window(c) == c..(c + 2 * TicksPerSecond)
NearInstants == Window(0)
LoginInstants ==
    (0..1) \cup
    ((minutes(LoginExpireMinutes) - 1)..minutes(LoginExpireMinutes))

\* Optional[timedelta]
NoDelta == [none |-> TRUE, ticks |-> 0]
Delta(d) == [none |-> FALSE, ticks |-> d]

\* Python truth value of an Optional[timedelta]: None and timedelta(0) are
\* both false.
Truthy(d) == ~d.none /\ d.ticks # 0

-----------------------------------------------------------------------------
(* Credential hashing *)

\* hashlib.sha256(x).hexdigest(): a one-way function without collisions
Sha256(x) == <<"sha256", x>>

\* app/auth.py get_password_hash, under salt PASSWORD_SALT
get_password_hash_saltonly(password, salt) == Sha256(salt)
get_password_hash(password, salt) == Sha256(password \o salt)

\* app/auth.py verify_password
verify_password_any(plain_password, hashed_password, salt) == TRUE

verify_password_nosalt(plain_password, hashed_password, salt) ==
    Sha256(plain_password) = hashed_password

verify_password(plain_password, hashed_password, salt) ==
    get_password_hash(plain_password, salt) = hashed_password

\* bcrypt.hashpw(password, salt): the digest embeds the salt it was made with
hashpw(password, salt) == <<"bcrypt", salt, password>>

\* app/crud.py hash_password, with the salt bcrypt.gensalt() drew
hash_password(password, salt) == hashpw(password, salt)

\* app/crud.py verify_password: bcrypt.checkpw re-hashes under the salt
\* embedded in the stored digest.  A stored value that is no bcrypt digest
\* never matches.
crud_verify_password(plain_password, hashed_password) ==
    /\ hashed_password[1] = "bcrypt"
    /\ hashpw(plain_password, hashed_password[2]) = hashed_password

-----------------------------------------------------------------------------
(* Tokens *)

\* A token is the compact signed structure: a payload (a dict, here a
\* function from claim names to values) and the key it was signed with.
\* Malformed stands for any bearer string that does not decode.
Malformed == [wf |-> FALSE, payload |-> [n \in {} |-> 0], key |-> ""]

\* jwt.encode(payload, key): a datetime "exp" is written as whole seconds
\* since the epoch (timegm of the UTC time tuple, which drops the fraction).
jwt_encode(payload, key) ==
    [ wf |-> TRUE,
      payload |-> [n \in DOMAIN payload |->
                      IF n = "exp" THEN payload[n] \div TicksPerSecond
                      ELSE payload[n]],
      key |-> key ]

\* app/auth.py create_access_token, called at instant t
create_access_token_past(data, expires_delta, cfg, t) ==
    LET expire == IF Truthy(expires_delta)
                  THEN t - expires_delta.ticks
                  ELSE t + minutes(cfg.ACCESS_TOKEN_EXPIRE_MINUTES)
        to_encode == [n \in DOMAIN data \cup {"exp"} |->
                         IF n = "exp" THEN expire ELSE data[n]]
    IN jwt_encode(to_encode, cfg.SECRET_KEY)

create_access_token(data, expires_delta, cfg, t) ==
    LET expire == IF Truthy(expires_delta)
                  THEN t + expires_delta.ticks
                  ELSE t + minutes(cfg.ACCESS_TOKEN_EXPIRE_MINUTES)
        to_encode == [n \in DOMAIN data \cup {"exp"} |->
                         IF n = "exp" THEN expire ELSE data[n]]
    IN jwt_encode(to_encode, cfg.SECRET_KEY)

\* jwt.decode(token, key, algorithms=[ALGORITHM]) at instant t: the
\* structure and the signature are checked first, then the "exp" claim,
\* which has expired as soon as exp <= now.
jwt_decode_noexp(token, key, t) ==
    IF ~token.wf THEN [err |-> "DecodeError"]
    ELSE IF token.key # key THEN [err |-> "InvalidSignatureError"]
    ELSE [err |-> "none", payload |-> token.payload]

jwt_decode_late(token, key, t) ==
    IF ~token.wf THEN [err |-> "DecodeError"]
    ELSE IF token.key # key THEN [err |-> "InvalidSignatureError"]
    ELSE IF "exp" \in DOMAIN token.payload
            /\ token.payload["exp"] * TicksPerSecond + TicksPerSecond <= t
         THEN [err |-> "ExpiredSignatureError"]
    ELSE [err |-> "none", payload |-> token.payload]

jwt_decode(token, key, t) ==
    IF ~token.wf THEN [err |-> "DecodeError"]
    ELSE IF token.key # key THEN [err |-> "InvalidSignatureError"]
    ELSE IF "exp" \in DOMAIN token.payload
            /\ token.payload["exp"] * TicksPerSecond <= t
         THEN [err |-> "ExpiredSignatureError"]
    ELSE [err |-> "none", payload |-> token.payload]

\* A "sub" claim that is a JSON number.  Claim values are written as strings
\* in this model, so the number carries a mark no handle has.
NumericSubject == "#7"
isinstance_str(value) == value # NumericSubject

\* jwt.decode as the bound release performs it: after the checks above, a
\* release that validates "sub" raises InvalidSubjectError for a subject
\* that is present and not a string.
decode(release, token, key, t) ==
    LET d == jwt_decode(token, key, t)
    IN IF /\ d.err = "none"
          /\ ValidatesSub(release)
          /\ "sub" \in DOMAIN d.payload
          /\ ~isinstance_str(d.payload["sub"])
       THEN [err |-> "InvalidSubjectError"]
       ELSE d

\* jwt.InvalidTokenError is the base class of the decode errors other than
\* the expiry, which is caught first.
IsInvalidTokenError(err) ==
    err \in {"DecodeError", "InvalidSignatureError", "InvalidSubjectError"}

\* app/schemas.py TokenData(username=...): pydantic 2 does not turn a number
\* into a str, it raises ValidationError
TokenData(username) ==
    IF isinstance_str(username) THEN [err |-> "none", username |-> username]
    ELSE [err |-> "ValidationError"]

\* HTTP failures raised by the guard
HTTPException(status_code, detail) ==
    [ok |-> FALSE, status_code |-> status_code, detail |-> detail]

credentials_exception == HTTPException(401, "Could not validate credentials")

\* app/auth.py verify_token
verify_token_nosubcheck(token, cfg, t) ==
    LET d == decode(cfg.jwt, token, cfg.SECRET_KEY, t)
    IN IF d.err = "ExpiredSignatureError"
       THEN HTTPException(401, "Token has expired")
       ELSE IF IsInvalidTokenError(d.err) THEN credentials_exception
       ELSE [ok |-> TRUE,
             username |-> IF "sub" \in DOMAIN d.payload
                          THEN d.payload["sub"] ELSE "None"]

verify_token(token, cfg, t) ==
    LET d == decode(cfg.jwt, token, cfg.SECRET_KEY, t)
    IN IF d.err = "ExpiredSignatureError"
       THEN HTTPException(401, "Token has expired")
       ELSE IF IsInvalidTokenError(d.err) THEN credentials_exception
       ELSE IF "sub" \notin DOMAIN d.payload THEN credentials_exception
       ELSE
         LET token_data == TokenData(d.payload["sub"])
         IN IF token_data.err = "ValidationError"
            THEN HTTPException(500, "ValidationError")
            ELSE [ok |-> TRUE, username |-> token_data.username]

-----------------------------------------------------------------------------
(* The account store and the access guard *)

\* A row of the users table (app/models.py User)
UserRow(id, username, email, hashed_password, is_active, is_hr) ==
    [ id |-> id, username |-> username, email |-> email,
      hashed_password |-> hashed_password,
      is_active |-> is_active, is_hr |-> is_hr ]

\* Result.scalar_one_or_none(): no row, the one row, or MultipleResultsFound
scalar_one_or_none(rows) ==
    IF rows = {} THEN [found |-> "none"]
    ELSE IF Cardinality(rows) = 1
         THEN [found |-> "one", row |-> CHOOSE r \in rows : TRUE]
    ELSE [found |-> "multiple"]

\* The next value of an autoincrement primary key
NextId(rows) ==
    IF rows = {} THEN 1
    ELSE 1 + (CHOOSE m \in {r.id : r \in rows} :
                 \A r \in rows : r.id <= m)

\* HTTPBearer(auto_error=False): None when no bearer credential is sent
NoCredentials == [present |-> FALSE, credentials |-> Malformed]
Bearer(token) == [present |-> TRUE, credentials |-> token]

\* The token verification written out in app/main.py get_current_user: the
\* try block, which ends with the subject in `username` or raises
InlineVerification(token, cfg, t) ==
    LET d == decode(cfg.jwt, token, cfg.SECRET_KEY, t)
    IN IF d.err = "ExpiredSignatureError"
       THEN HTTPException(401, "Token has expired")
       ELSE IF IsInvalidTokenError(d.err) THEN credentials_exception
       ELSE IF "sub" \notin DOMAIN d.payload THEN credentials_exception
       ELSE [ok |-> TRUE, username |-> d.payload["sub"]]

\* app/main.py get_current_user, run at instant t against the users table db
get_current_user_noactive(credentials, db, cfg, t) ==
    IF ~credentials.present THEN HTTPException(401, "Not authenticated")
    ELSE
      LET token == credentials.credentials
          verified == InlineVerification(token, cfg, t)
      IN IF ~verified.ok THEN verified
         ELSE
           LET username == verified.username
               user == scalar_one_or_none({u \in db : u.username = username})
           IN IF user.found = "multiple"
              THEN HTTPException(500, "MultipleResultsFound")
              ELSE IF user.found = "none"
              THEN HTTPException(401, "User not found")
              ELSE [ok |-> TRUE, user |-> user.row]

get_current_user(credentials, db, cfg, t) ==
    IF ~credentials.present THEN HTTPException(401, "Not authenticated")
    ELSE
      LET token == credentials.credentials
          verified == InlineVerification(token, cfg, t)
      IN IF ~verified.ok THEN verified
         ELSE
           LET username == verified.username
               user == scalar_one_or_none({u \in db : u.username = username})
           IN IF user.found = "multiple"
              THEN HTTPException(500, "MultipleResultsFound")
              ELSE IF user.found = "none"
              THEN HTTPException(401, "User not found")
              ELSE IF ~user.row.is_active
              THEN HTTPException(400, "Inactive user")
              ELSE [ok |-> TRUE, user |-> user.row]

\* app/main.py get_current_hr_user, given the account its dependency returned
get_current_hr_user_inverted(current_user) ==
    IF current_user.is_hr
    THEN HTTPException(403, "HR privileges required")
    ELSE [ok |-> TRUE, user |-> current_user]

get_current_hr_user(current_user) ==
    IF ~current_user.is_hr
    THEN HTTPException(403, "HR privileges required")
    ELSE [ok |-> TRUE, user |-> current_user]

\* Depends(get_current_hr_user): the framework first resolves the inner
\* dependency get_current_user; an exception raised there ends the request
\* and the role check is never called.
DependsHr(credentials, db, cfg, t) ==
    LET current_user == get_current_user(credentials, db, cfg, t)
    IN IF ~current_user.ok
       THEN [role_checked |-> FALSE, result |-> current_user]
       ELSE [role_checked |-> TRUE,
             result |-> get_current_hr_user(current_user.user)]

-----------------------------------------------------------------------------
(* Inputs *)

\* Request bodies of POST /register (UserCreate)
UserCreate(username, email, password, is_hr) ==
    [ username |-> username, email |-> email, password |-> password,
      is_hr |-> is_hr ]

RegisterInputs ==
    { UserCreate(h, e, "password123", hr) :
        h \in Handles, e \in Emails, hr \in BOOLEAN }

\* Requests of clients that each register their own address
EmailOf(h) == IF h = "alice" THEN "alice@hr.example" ELSE "bobby@hr.example"

OwnRegisterInputs ==
    { UserCreate(h, EmailOf(h), "password123", hr) :
        h \in Handles, hr \in BOOLEAN }

\* Accounts already in the users table when the process starts.  Their
\* digests were made by register under the default salt.
SeedDigest(p) == get_password_hash(p, DefaultPasswordSalt)

SeedStores ==
    { {},
      { UserRow(1, "alice", "alice@hr.example", SeedDigest("password123"),
                TRUE, TRUE) },
      { UserRow(1, "alice", "alice@hr.example", SeedDigest("password123"),
                FALSE, TRUE),
        UserRow(2, "bobby", "bobby@hr.example", SeedDigest("password456"),
                TRUE, FALSE) } }

\* Bearer values a client can present: any string, and well-formed tokens
\* with or without a subject, signed with the server's key or another one.
\* The "exp" values, in seconds, are one that has passed at every instant
\* and one that has passed at none.
ExpInputs == {0, 1 + minutes(LoginExpireMinutes)}

Payloads ==
    { [n \in {"exp"} |-> x] : x \in ExpInputs } \cup
    { [n \in {"sub", "exp"} |-> IF n = "sub" THEN h ELSE x] :
        h \in Handles, x \in ExpInputs }

Forged ==
    [ wf |-> TRUE, key |-> "another-secret",
      payload |-> [n \in {"sub", "exp"} |->
                     IF n = "sub" THEN "alice"
                     ELSE 1 + minutes(LoginExpireMinutes)] ]

TokenInputs(cfg) ==
    {Malformed, Forged} \cup
    { [wf |-> TRUE, payload |-> p, key |-> cfg.SECRET_KEY] : p \in Payloads }

\* Tokens signed with the server's key whose subject is a number, live at
\* every sampled instant or expired at each of them
NumericTokens(cfg) ==
    { [wf |-> TRUE, key |-> cfg.SECRET_KEY,
       payload |-> [n \in {"sub", "exp"} |->
                      IF n = "sub" THEN NumericSubject ELSE x]] :
        x \in ExpInputs }

IssuedTokens == { i.token : i \in issued }

CredentialInputs(tokens) == {NoCredentials} \cup { Bearer(tk) : tk \in tokens }

\* expires_delta arguments of a direct create_access_token call
DeltaInputs ==
    { NoDelta, Delta(0), Delta(1), Delta(seconds(1)), Delta(seconds(1) + 1) }

-----------------------------------------------------------------------------
(* State *)

Idle == [op |-> "none"]
IdleSlot == [pc |-> "idle"]

Serving == phase = "serving"

Init ==
    /\ env \in Envs
    /\ phase = "import"
    /\ config = NoConfig
    /\ now = 0
    /\ users \in SeedStores
    /\ candidates = {}
    /\ vacancies = {}
    /\ regs = [r \in RegSlots |-> IdleSlot]
    /\ issued = {}
    /\ digests = {}
    /\ resp = Idle

\* Import of app/auth.py and app/main.py: the configuration is read from the
\* environment, with its defaults, and the application starts serving.
Startup ==
    /\ phase = "import"
    /\ \E release \in JwtReleases : config' = LoadConfig(env, release)
    /\ phase' = "serving"
    /\ resp' = Idle
    /\ UNCHANGED <<env, now, users, candidates, vacancies, regs, issued,
                   digests>>

\* Time passes, to a later sampled instant
Tick(instants) ==
    /\ Serving
    /\ \E t \in instants : t > now /\ now' = t
    /\ resp' = Idle
    /\ UNCHANGED <<env, phase, config, users, candidates, vacancies, regs,
                   issued, digests>>

-----------------------------------------------------------------------------
(* Direct calls of the hashing and token functions *)

\* The data argument of create_access_token: a dict with or without "sub"
DataInputs ==
    { [n \in {"sub"} |-> h] : h \in Handles } \cup { [n \in {} |-> ""] }

\* A call create_access_token(data, expires_delta) at the current instant
IssueToken(data, delta) ==
    /\ Serving
    /\ LET tk == create_access_token(data, delta, config, now)
           rec == [ token |-> tk, data |-> data, delta |-> delta, at |-> now,
                    by |-> "create_access_token" ]
       IN /\ rec \in issued \/ Cardinality(issued) < MaxIssued
          /\ issued' = issued \cup {rec}
          /\ resp' = [op |-> "create_access_token", token |-> tk]
    /\ UNCHANGED <<env, phase, config, now, users, candidates, vacancies,
                   regs, digests>>

\* A call verify_token(token) of app/auth.py at the current instant
VerifyToken(tk) ==
    /\ Serving
    /\ resp' = [ op |-> "verify_token", token |-> tk,
                 result |-> verify_token(tk, config, now) ]
    /\ UNCHANGED <<env, phase, config, now, users, candidates, vacancies,
                   regs, issued, digests>>

\* Both verifications applied to the same token at the same instant
VerifyBoth(tk) ==
    /\ Serving
    /\ resp' = [ op |-> "verify_both", token |-> tk,
                 auth |-> verify_token(tk, config, now),
                 inline |-> InlineVerification(tk, config, now) ]
    /\ UNCHANGED <<env, phase, config, now, users, candidates, vacancies,
                   regs, issued, digests>>

\* The salts bcrypt.gensalt() has returned so far: 16 random bytes each, so
\* a call returns one it has not returned before
UsedSalts == { r.digest[2] : r \in { q \in digests : q.impl = "crud" } }

\* A call of a hasher: get_password_hash of app/auth.py ("auth") or
\* hash_password of app/crud.py ("crud", with the salt gensalt() returned)
HashPassword(impl, secret, salt) ==
    /\ Serving
    /\ impl = "crud" => salt \notin UsedSalts
    /\ LET d == IF impl = "auth"
                THEN get_password_hash(secret, config.PASSWORD_SALT)
                ELSE hash_password(secret, salt)
           rec == [impl |-> impl, secret |-> secret, digest |-> d]
       IN /\ rec \in digests \/ Cardinality(digests) < MaxDigests
          /\ digests' = digests \cup {rec}
          /\ resp' = [op |-> "hash", impl |-> impl, secret |-> secret,
                      digest |-> d]
    /\ UNCHANGED <<env, phase, config, now, users, candidates, vacancies,
                   regs, issued>>

\* A call of the matching verify_password on a digest made before
VerifyPassword(plain, rec) ==
    /\ Serving
    /\ rec \in digests
    /\ resp' = [ op |-> "verify_password", plain |-> plain, entry |-> rec,
                 result |->
                   IF rec.impl = "auth"
                   THEN verify_password(plain, rec.digest,
                                        config.PASSWORD_SALT)
                   ELSE crud_verify_password(plain, rec.digest) ]
    /\ UNCHANGED <<env, phase, config, now, users, candidates, vacancies,
                   regs, issued, digests>>

\* GET /users/me: an endpoint that depends on get_current_user only
ReadUsersMe(credentials) ==
    /\ Serving
    /\ resp' = [ op |-> "read_users_me", credentials |-> credentials,
                 result |-> get_current_user(credentials, users, config, now) ]
    /\ UNCHANGED <<env, phase, config, now, users, candidates, vacancies,
                   regs, issued, digests>>

-----------------------------------------------------------------------------
(* Registration and login *)

\* The unique indexes on users.email and users.username: a commit that would
\* break one raises IntegrityError and adds nothing.
UserUnique_none(db, email, username) == TRUE

UserUnique(db, email, username) ==
    \A u \in db : u.email # email /\ u.username # username

\* POST /register up to its first commit: the existence query, the check of
\* its result, and the new row added to the session.
RegisterQuery(r, user_data) ==
    /\ Serving
    /\ regs[r].pc \in {"idle", "done"}
    /\ LET existing_user == scalar_one_or_none(
                { u \in users : \/ u.email = user_data.email
                                \/ u.username = user_data.username })
       IN regs' = [regs EXCEPT ![r] =
              IF existing_user.found = "multiple"
              THEN [pc |-> "done", data |-> user_data, status_code |-> 500]
              ELSE IF existing_user.found = "one"
              THEN [pc |-> "done", data |-> user_data, status_code |-> 400]
              ELSE [pc |-> "queried", data |-> user_data,
                    status_code |-> 0]]
    /\ resp' = Idle
    /\ UNCHANGED <<env, phase, config, now, users, candidates, vacancies,
                   issued, digests>>

\* POST /register from its commit on: the insert, refused by the database
\* when another request has taken the handle or the address meanwhile.
RegisterCommit(r) ==
    /\ Serving
    /\ regs[r].pc = "queried"
    /\ LET user_data == regs[r].data
           db_user == UserRow(NextId(users), user_data.username,
                              user_data.email,
                              get_password_hash(user_data.password,
                                                config.PASSWORD_SALT),
                              TRUE, user_data.is_hr)
       IN IF UserUnique(users, user_data.email, user_data.username)
          THEN /\ users' = users \cup {db_user}
               /\ regs' = [regs EXCEPT ![r].pc = "done",
                                       ![r].status_code = 201]
          ELSE /\ users' = users
               /\ regs' = [regs EXCEPT ![r].pc = "done",
                                       ![r].status_code = 500]
    /\ resp' = Idle
    /\ UNCHANGED <<env, phase, config, now, candidates, vacancies, issued,
                   digests>>

\* app/crud.py create_user: no existence check, a bcrypt digest, and the
\* column defaults for is_active and is_hr
CrudCreateUser(user, salt) ==
    /\ Serving
    /\ LET db_user == UserRow(NextId(users), user.username, user.email,
                              hash_password(user.password, salt),
                              TRUE, FALSE)
       IN IF UserUnique(users, user.email, user.username)
          THEN /\ users' = users \cup {db_user}
               /\ resp' = [op |-> "create_user", status_code |-> 201]
          ELSE /\ users' = users
               /\ resp' = [op |-> "create_user", status_code |-> 500]
    /\ UNCHANGED <<env, phase, config, now, candidates, vacancies, regs,
                   issued, digests>>

\* POST /login
Login(username, password) ==
    /\ Serving
    /\ LET user == scalar_one_or_none({u \in users : u.username = username})
           form == [username |-> username, password |-> password]
       IN IF user.found = "multiple"
          THEN /\ issued' = issued
               /\ resp' = [op |-> "login", form |-> form,
                           result |-> HTTPException(500,
                                          "MultipleResultsFound")]
          ELSE IF \/ user.found = "none"
                  \/ ~verify_password(password, user.row.hashed_password,
                                      config.PASSWORD_SALT)
          THEN /\ issued' = issued
               /\ resp' = [op |-> "login", form |-> form,
                           result |-> HTTPException(401,
                                          "Incorrect username or password")]
          ELSE IF ~user.row.is_active
          THEN /\ issued' = issued
               /\ resp' = [op |-> "login", form |-> form,
                           result |-> HTTPException(400, "Inactive user")]
          ELSE
            LET access_token_expires == Delta(minutes(LoginExpireMinutes))
                data == [n \in {"sub"} |-> user.row.username]
                access_token == create_access_token(
                                    data, access_token_expires, config, now)
                rec == [ token |-> access_token, data |-> data,
                         delta |-> access_token_expires, at |-> now,
                         by |-> "login" ]
            IN /\ rec \in issued \/ Cardinality(issued) < MaxLogins
               /\ issued' = issued \cup {rec}
               /\ resp' = [op |-> "login", form |-> form,
                           result |-> [ok |-> TRUE,
                                       access_token |-> access_token,
                                       token_type |-> "bearer"]]
    /\ UNCHANGED <<env, phase, config, now, users, candidates, vacancies,
                   regs, digests>>

-----------------------------------------------------------------------------
(* Candidate and vacancy mutation endpoints of app/main.py *)

CandidateRow(id, email, status, recruiter_id) ==
    [id |-> id, email |-> email, status |-> status,
     recruiter_id |-> recruiter_id]

VacancyRow(id, status) == [id |-> id, status |-> status]

\* The response of a guarded endpoint: the outcome of its dependency and the
\* status code returned
Guarded(op, credentials, dep, status_code) ==
    [ op |-> op, credentials |-> credentials, dep |-> dep,
      status_code |-> status_code ]

\* POST /candidates/
CreateCandidate(credentials, email) ==
    /\ Serving
    /\ LET dep == DependsHr(credentials, users, config, now)
           existing == scalar_one_or_none(
                          {c \in candidates : c.email = email})
       IN IF ~dep.result.ok
          THEN /\ candidates' = candidates
               /\ resp' = Guarded("create_candidate", credentials, dep,
                                  dep.result.status_code)
          ELSE IF existing.found # "none"
          THEN /\ candidates' = candidates
               /\ resp' = Guarded("create_candidate", credentials, dep, 400)
          ELSE /\ NextId(candidates) <= MaxRowId
               /\ candidates' = candidates \cup
                      { CandidateRow(NextId(candidates), email, "new",
                                     dep.result.user.id) }
               /\ resp' = Guarded("create_candidate", credentials, dep, 201)
    /\ UNCHANGED <<env, phase, config, now, users, vacancies, regs, issued,
                   digests>>

\* PUT /candidates/{candidate_id}
UpdateCandidate(credentials, candidate_id, status) ==
    /\ Serving
    /\ LET dep == DependsHr(credentials, users, config, now)
           db_candidate == scalar_one_or_none(
                              {c \in candidates : c.id = candidate_id})
       IN IF ~dep.result.ok
          THEN /\ candidates' = candidates
               /\ resp' = Guarded("update_candidate", credentials, dep,
                                  dep.result.status_code)
          ELSE IF db_candidate.found = "none"
          THEN /\ candidates' = candidates
               /\ resp' = Guarded("update_candidate", credentials, dep, 404)
          ELSE /\ candidates' =
                      (candidates \ {db_candidate.row}) \cup
                      { [db_candidate.row EXCEPT !.status = status] }
               /\ resp' = Guarded("update_candidate", credentials, dep, 200)
    /\ UNCHANGED <<env, phase, config, now, users, vacancies, regs, issued,
                   digests>>

\* DELETE /candidates/{candidate_id}
DeleteCandidate(credentials, candidate_id) ==
    /\ Serving
    /\ LET dep == DependsHr(credentials, users, config, now)
           db_candidate == scalar_one_or_none(
                              {c \in candidates : c.id = candidate_id})
       IN IF ~dep.result.ok
          THEN /\ candidates' = candidates
               /\ resp' = Guarded("delete_candidate", credentials, dep,
                                  dep.result.status_code)
          ELSE IF db_candidate.found = "none"
          THEN /\ candidates' = candidates
               /\ resp' = Guarded("delete_candidate", credentials, dep, 404)
          ELSE /\ candidates' = candidates \ {db_candidate.row}
               /\ resp' = Guarded("delete_candidate", credentials, dep, 204)
    /\ UNCHANGED <<env, phase, config, now, users, vacancies, regs, issued,
                   digests>>

\* POST /vacancies/
CreateVacancy(credentials, status) ==
    /\ Serving
    /\ LET dep == DependsHr(credentials, users, config, now)
       IN IF ~dep.result.ok
          THEN /\ vacancies' = vacancies
               /\ resp' = Guarded("create_vacancy", credentials, dep,
                                  dep.result.status_code)
          ELSE /\ NextId(vacancies) <= MaxRowId
               /\ vacancies' = vacancies \cup
                      { VacancyRow(NextId(vacancies), status) }
               /\ resp' = Guarded("create_vacancy", credentials, dep, 201)
    /\ UNCHANGED <<env, phase, config, now, users, candidates, regs, issued,
                   digests>>

\* PUT /vacancies/{vacancy_id}
UpdateVacancy(credentials, vacancy_id, status) ==
    /\ Serving
    /\ LET dep == DependsHr(credentials, users, config, now)
           db_vacancy == scalar_one_or_none(
                            {v \in vacancies : v.id = vacancy_id})
       IN IF ~dep.result.ok
          THEN /\ vacancies' = vacancies
               /\ resp' = Guarded("update_vacancy", credentials, dep,
                                  dep.result.status_code)
          ELSE IF db_vacancy.found = "none"
          THEN /\ vacancies' = vacancies
               /\ resp' = Guarded("update_vacancy", credentials, dep, 404)
          ELSE /\ vacancies' =
                      (vacancies \ {db_vacancy.row}) \cup
                      { [db_vacancy.row EXCEPT !.status = status] }
               /\ resp' = Guarded("update_vacancy", credentials, dep, 200)
    /\ UNCHANGED <<env, phase, config, now, users, candidates, regs, issued,
                   digests>>

\* DELETE /vacancies/{vacancy_id}
DeleteVacancy(credentials, vacancy_id) ==
    /\ Serving
    /\ LET dep == DependsHr(credentials, users, config, now)
           db_vacancy == scalar_one_or_none(
                            {v \in vacancies : v.id = vacancy_id})
       IN IF ~dep.result.ok
          THEN /\ vacancies' = vacancies
               /\ resp' = Guarded("delete_vacancy", credentials, dep,
                                  dep.result.status_code)
          ELSE IF db_vacancy.found = "none"
          THEN /\ vacancies' = vacancies
               /\ resp' = Guarded("delete_vacancy", credentials, dep, 404)
          ELSE /\ vacancies' = vacancies \ {db_vacancy.row}
               /\ resp' = Guarded("delete_vacancy", credentials, dep, 204)
    /\ UNCHANGED <<env, phase, config, now, users, candidates, regs, issued,
                   digests>>

-----------------------------------------------------------------------------
(* The candidate routes of app/candidates_router.py over app/crud.py: they *)
(* declare no dependency besides the database session.                      *)

\* The unique index on candidates.email: a commit that would break it raises
\* IntegrityError and adds nothing.
CandidateEmailFree(email) == \A c \in candidates : c.email # email

\* POST /candidates -> crud.create_candidate
RouterCreateCandidate(email) ==
    /\ Serving
    /\ IF CandidateEmailFree(email)
       THEN /\ NextId(candidates) <= MaxRowId
            /\ candidates' = candidates \cup
                   { CandidateRow(NextId(candidates), email, "new", 0) }
            /\ resp' = [op |-> "router_create_candidate", status_code |-> 201]
       ELSE /\ candidates' = candidates
            /\ resp' = [op |-> "router_create_candidate", status_code |-> 500]
    /\ UNCHANGED <<env, phase, config, now, users, vacancies, regs, issued,
                   digests>>

\* PUT /candidates/{candidate_id} -> crud.update_candidate
RouterUpdateCandidate(candidate_id, status) ==
    /\ Serving
    /\ LET rows == {c \in candidates : c.id = candidate_id}
       IN IF rows = {}
          THEN /\ candidates' = candidates
               /\ resp' = [op |-> "router_update_candidate",
                           status_code |-> 404]
          ELSE /\ candidates' =
                      (candidates \ rows) \cup
                      { [c EXCEPT !.status = status] : c \in rows }
               /\ resp' = [op |-> "router_update_candidate",
                           status_code |-> 200]
    /\ UNCHANGED <<env, phase, config, now, users, vacancies, regs, issued,
                   digests>>

\* DELETE /candidates/{candidate_id} -> crud.delete_candidate
RouterDeleteCandidate(candidate_id) ==
    /\ Serving
    /\ LET rows == {c \in candidates : c.id = candidate_id}
       IN IF rows = {}
          THEN /\ candidates' = candidates
               /\ resp' = [op |-> "router_delete_candidate",
                           status_code |-> 404]
          ELSE /\ candidates' = candidates \ rows
               /\ resp' = [op |-> "router_delete_candidate",
                           status_code |-> 204]
    /\ UNCHANGED <<env, phase, config, now, users, vacancies, regs, issued,
                   digests>>

-----------------------------------------------------------------------------
(* Specifications *)

RowIds == 1..MaxRowId

\* Token issue and verification
NextAuth ==
    \/ Startup
    \/ Tick(NearInstants)
    \/ \E data \in DataInputs, delta \in DeltaInputs : IssueToken(data, delta)
    \/ \E tk \in TokenInputs(config) \cup IssuedTokens : VerifyToken(tk)
    \/ \E tk \in TokenInputs(config) \cup NumericTokens(config)
                                     \cup IssuedTokens : VerifyBoth(tk)

SpecAuth == Init /\ [][NextAuth]_vars

\* Concurrent registrations, through the endpoint and through the CRUD layer
NextRegister ==
    \/ Startup
    \/ \E r \in RegSlots, d \in RegisterInputs : RegisterQuery(r, d)
    \/ \E r \in RegSlots : RegisterCommit(r)
    \/ \E d \in RegisterInputs, salt \in Salts : CrudCreateUser(d, salt)

SpecRegister == Init /\ [][NextRegister]_vars

\* The program as its clients drive it: register, log in, present the token
Next ==
    \/ Startup
    \/ Tick(LoginInstants)
    \/ \E d \in OwnRegisterInputs : RegisterQuery(1, d)
    \/ RegisterCommit(1)
    \/ \E h \in Handles, p \in Passwords : Login(h, p)
    \/ \E c \in CredentialInputs(IssuedTokens) :
          \/ ReadUsersMe(c)
          \/ UpdateCandidate(c, 1, "hired")

Spec == Init /\ [][Next]_vars

\* The access guard in front of the protected endpoints
NextGuard ==
    \/ Startup
    \/ \E c \in CredentialInputs(TokenInputs(config)) :
          \/ ReadUsersMe(c)
          \/ \E e \in CandidateEmails : CreateCandidate(c, e)
          \/ \E id \in RowIds, st \in Statuses : UpdateCandidate(c, id, st)
          \/ \E id \in RowIds : DeleteCandidate(c, id)
    \/ \E e \in CandidateEmails : RouterCreateCandidate(e)
    \/ \E id \in RowIds, st \in Statuses : RouterUpdateCandidate(id, st)
    \/ \E id \in RowIds : RouterDeleteCandidate(id)

SpecGuard == Init /\ [][NextGuard]_vars

\* The guard in front of the vacancy mutations
NextVacancy ==
    \/ Startup
    \/ \E c \in CredentialInputs(TokenInputs(config)) :
          \/ \E st \in Statuses : CreateVacancy(c, st)
          \/ \E id \in RowIds, st \in Statuses : UpdateVacancy(c, id, st)
          \/ \E id \in RowIds : DeleteVacancy(c, id)

SpecVacancy == Init /\ [][NextVacancy]_vars

\* The two credential hashers
NextHash ==
    \/ Startup
    \/ \E impl \in {"auth", "crud"}, s \in Passwords, salt \in Salts :
          HashPassword(impl, s, salt)
    \/ \E s \in Passwords, rec \in digests : VerifyPassword(s, rec)

SpecHash == Init /\ [][NextHash]_vars

-----------------------------------------------------------------------------
(* Properties *)

\* The error kinds as the caller sees them
Unauthenticated == HTTPException(401, "Not authenticated")
InvalidToken == HTTPException(401, "Could not validate credentials")
ExpiredToken == HTTPException(401, "Token has expired")
AccountNotFound == HTTPException(401, "User not found")
AccountInactive == HTTPException(400, "Inactive user")
Forbidden == HTTPException(403, "HR privileges required")

\* Facts about a bearer value, stated on the token itself
SignedByServer(tk) == tk.wf /\ tk.key = config.SECRET_KEY
HasSubject(tk) == "sub" \in DOMAIN tk.payload
ExpiryPassed(tk, t) ==
    "exp" \in DOMAIN tk.payload /\ tk.payload["exp"] * TicksPerSecond <= t

C4_ZeroTtlExpired ==
    \A i \in issued :
        ( /\ resp.op = "verify_token"
          /\ resp.token = i.token
          /\ \/ i.delta = Delta(0)
             \/ ExpiryPassed(i.token, now) )
        => resp.result = ExpiredToken

\* C8 as stated: for every ttl T > 0, verifying issue(H, T) at any instant
\* from the issuance up to, but excluding, issuance + T succeeds with H.
C8_RoundTripAnyTtl ==
    \A i \in issued :
        ( /\ resp.op = "verify_token"
          /\ resp.token = i.token
          /\ "sub" \in DOMAIN i.data
          /\ ~i.delta.none /\ i.delta.ticks > 0
          /\ now < i.at + i.delta.ticks )
        => resp.result = [ok |-> TRUE, username |-> i.data["sub"]]

\* C8 amended: for every ttl T of at least one second, verifying issue(H, T)
\* at any instant from the issuance up to, but excluding, the start of the
\* second that issuance + T falls in succeeds and returns exactly H.
C8_RoundTripWholeSeconds ==
    \A i \in issued :
        ( /\ resp.op = "verify_token"
          /\ resp.token = i.token
          /\ "sub" \in DOMAIN i.data
          /\ ~i.delta.none /\ i.delta.ticks >= seconds(1)
          /\ now < ((i.at + i.delta.ticks) \div TicksPerSecond)
                      * TicksPerSecond )
        => resp.result = [ok |-> TRUE, username |-> i.data["sub"]]

\* A token with a ttl of one second or more verified after its issuance
C8_Witness ==
    \E i \in issued :
        /\ resp.op = "verify_token"
        /\ resp.token = i.token
        /\ "sub" \in DOMAIN i.data
        /\ ~i.delta.none /\ i.delta.ticks >= seconds(1)
        /\ i.at < now
        /\ now < i.at + i.delta.ticks
        /\ resp.result = [ok |-> TRUE, username |-> i.data["sub"]]

\* C10: without a SECRET_KEY in the environment the process never gets to
\* serve, and no token is issued or verified.
C10_MissingSecretFatal ==
    "SECRET_KEY" \notin DOMAIN env =>
        /\ phase # "serving"
        /\ issued = {}
        /\ resp.op \notin {"create_access_token", "verify_token", "login",
                           "read_users_me"}

Named(tk) == { u \in users : u.username = tk.payload["sub"] }

\* A request resolves when it carries a token signed by the server, not
\* expired, whose subject is the handle of an active account
Resolves(c) ==
    /\ c.present
    /\ SignedByServer(c.credentials)
    /\ ~ExpiryPassed(c.credentials, now)
    /\ HasSubject(c.credentials)
    /\ \E u \in Named(c.credentials) : u.is_active

\* C1: get_current_user fails with the outcome of the first failing step, in
\* the order no credential, token verification, account lookup, active flag;
\* it returns an account only when all pass, and then the account whose
\* handle is the token's subject.
C1_CheckOrder ==
    resp.op = "read_users_me" =>
        LET c == resp.credentials
            tk == c.credentials
            r == resp.result
        IN IF ~c.present THEN r = Unauthenticated
           ELSE IF ~SignedByServer(tk) THEN r = InvalidToken
           ELSE IF ExpiryPassed(tk, now) THEN r = ExpiredToken
           ELSE IF ~HasSubject(tk) THEN r = InvalidToken
           ELSE IF Named(tk) = {} THEN r = AccountNotFound
           ELSE IF \E u \in Named(tk) : ~u.is_active THEN r = AccountInactive
           ELSE /\ r.ok
                /\ r.user \in users
                /\ r.user.username = tk.payload["sub"]

\* A valid token of an inactive account was refused at the last step
C1_Witness ==
    /\ resp.op = "read_users_me"
    /\ resp.credentials.present
    /\ SignedByServer(resp.credentials.credentials)
    /\ ~ExpiryPassed(resp.credentials.credentials, now)
    /\ HasSubject(resp.credentials.credentials)
    /\ \E u \in Named(resp.credentials.credentials) : ~u.is_active
    /\ resp.result = AccountInactive

\* C3: a step changes the candidate or vacancy store only when its request
\* resolves to an active account with the HR flag set.
C3_MutationsGated ==
    [][ (candidates' # candidates \/ vacancies' # vacancies) =>
            /\ "credentials" \in DOMAIN resp'
            /\ Resolves(resp'.credentials)
            /\ \E u \in Named(resp'.credentials.credentials) : u.is_hr
      ]_vars

\* C5: the role check runs only on requests that resolve, no other request
\* is answered Forbidden, and a request that resolves is answered Forbidden
\* exactly when the account's HR flag is false.
C5_RoleAfterIdentity ==
    "dep" \in DOMAIN resp =>
        LET c == resp.credentials
        IN /\ resp.dep.role_checked => Resolves(c)
           /\ (resp.dep.result = Forbidden \/ resp.status_code = 403)
                 => Resolves(c)
           /\ Resolves(c) =>
                 /\ resp.dep.role_checked
                 /\ resp.dep.result = Forbidden
                       <=> \E u \in Named(c.credentials) : ~u.is_hr
                 /\ resp.status_code = 403
                       <=> \E u \in Named(c.credentials) : ~u.is_hr

\* An active account without the HR flag was answered Forbidden
C5_Witness ==
    /\ "dep" \in DOMAIN resp
    /\ Resolves(resp.credentials)
    /\ \E u \in Named(resp.credentials.credentials) : ~u.is_hr
    /\ resp.dep.role_checked
    /\ resp.status_code = 403

\* An account's handle or address is already in the users table
Taken(user_data) ==
    \E u \in users : \/ u.username = user_data.username
                     \/ u.email = user_data.email

\* C6: under every interleaving of register requests the users table never
\* holds two accounts with one handle or with one address, and a register
\* request that completes while its handle or address is taken adds no
\* account.
C6_UniqueAccounts ==
    /\ [](\A u1, u2 \in users :
             u1 # u2 => /\ u1.username # u2.username
                        /\ u1.email # u2.email)
    /\ [][ \A r \in RegSlots :
             ( /\ regs[r].pc # "done"
               /\ regs'[r].pc = "done"
               /\ Taken(regs'[r].data) )
             => users' = users ]_vars

\* A request passed the existence check and was then refused at its commit,
\* because a concurrent request had taken the handle or the address
C6_Witness ==
    \E r \in RegSlots :
        /\ regs[r].pc = "done"
        /\ regs[r].status_code = 500
        /\ Taken(regs[r].data)

\* A register request for a non-privileged account that was answered 201
RegisteredPlain(h) ==
    { regs[r].data : r \in { q \in RegSlots :
          /\ regs[q].pc = "done"
          /\ regs[q].status_code = 201
          /\ regs[q].data.username = h
          /\ ~regs[q].data.is_hr } }

\* The tokens login returned for handle h that have not expired
LoginTokens(h) ==
    { i.token : i \in { j \in issued :
          /\ j.by = "login"
          /\ j.data["sub"] = h
          /\ ~ExpiryPassed(j.token, now) } }

\* C9: after a successful register of a non-privileged account, login with
\* the same handle and password returns a token; presenting that token
\* before it expires resolves to that account; and a privileged-only
\* operation on it is answered Forbidden.
C9_EndToEnd ==
    /\ resp.op = "login" =>
           \A d \in RegisteredPlain(resp.form.username) :
               d.password = resp.form.password =>
                   /\ resp.result.ok
                   /\ resp.result.access_token \in
                          LoginTokens(resp.form.username)
    /\ resp.op = "read_users_me" /\ resp.credentials.present =>
           \A h \in Handles : \A d \in RegisteredPlain(h) :
               resp.credentials.credentials \in LoginTokens(h) =>
                   /\ resp.result.ok
                   /\ resp.result.user \in users
                   /\ resp.result.user.username = h
                   /\ resp.result.user.email = d.email
    /\ resp.op = "update_candidate" /\ resp.credentials.present =>
           \A h \in Handles : \A d \in RegisteredPlain(h) :
               resp.credentials.credentials \in LoginTokens(h) =>
                   /\ resp.dep.result = Forbidden
                   /\ resp.status_code = 403

\* The token login gave a registered non-privileged account was presented,
\* a while after the login, to a privileged-only operation
C9_Witness ==
    /\ resp.op = "update_candidate"
    /\ resp.credentials.present
    /\ \E h \in Handles :
          /\ RegisteredPlain(h) # {}
          /\ resp.credentials.credentials \in LoginTokens(h)
    /\ now > 1
    /\ resp.status_code = 403

\* The matching verify function of a hasher
Verifies(impl, secret, digest) ==
    IF impl = "auth"
    THEN verify_password(secret, digest, config.PASSWORD_SALT)
    ELSE crud_verify_password(secret, digest)

\* C11: a call of hash on a secret returns a digest different from the one
\* every earlier call of the same hasher returned for the same secret, and
\* the secret verifies against both digests.
C11_FreshDigests ==
    [][ resp'.op = "hash" =>
          \A rec \in digests :
              (rec.impl = resp'.impl /\ rec.secret = resp'.secret) =>
                  /\ rec.digest # resp'.digest
                  /\ Verifies(rec.impl, rec.secret, rec.digest)
                  /\ Verifies(rec.impl, rec.secret, resp'.digest)
      ]_vars

\* The tokens returned by login
LoginIssued == { i \in issued : i.by = "login" }

\* C12: a token issued by login carries exactly the subject handle and an
\* expiry, and the expiry is the second of the signing instant plus the
\* configured default lifetime ACCESS_TOKEN_EXPIRE_MINUTES.
C12_LoginLifetime ==
    \A i \in LoginIssued :
        /\ DOMAIN i.token.payload = {"sub", "exp"}
        /\ i.token.payload["sub"] = i.data["sub"]
        /\ i.token.payload["exp"] =
              (i.at + minutes(config.ACCESS_TOKEN_EXPIRE_MINUTES))
                  \div TicksPerSecond

\* C13: tokens are never revoked and only expire.  Whatever logins and
\* requests came in between, presenting a token that login issued resolves
\* to its account while the expiry has not passed and the account is active,
\* and fails with ExpiredToken from the expiry on; no step takes a token
\* back, and an expiry that has passed stays passed, so a token that failed
\* with ExpiredToken never succeeds again.
C13_OnlyExpire ==
    /\ [](resp.op = "read_users_me" /\ resp.credentials.present =>
             \A i \in LoginIssued :
                 i.token = resp.credentials.credentials =>
                     IF ExpiryPassed(i.token, now)
                     THEN resp.result = ExpiredToken
                     ELSE (\E u \in Named(i.token) : u.is_active) =>
                              /\ resp.result.ok
                              /\ resp.result.user \in Named(i.token))
    /\ [][ \A i \in LoginIssued :
              /\ i \in issued'
              /\ ExpiryPassed(i.token, now) => ExpiryPassed(i.token, now')
        ]_vars

\* A token was refused as expired after a later login had issued another
C13_Witness ==
    /\ resp.op = "read_users_me"
    /\ resp.credentials.present
    /\ resp.result = ExpiredToken
    /\ \E i, j \in LoginIssued :
          /\ i.token = resp.credentials.credentials
          /\ j.at > i.at
          /\ ExpiryPassed(i.token, now)
          /\ ~ExpiryPassed(j.token, now)

\* The rejection login gives for an unknown handle and for a wrong password
IncorrectCredentials == HTTPException(401, "Incorrect username or password")

\* The accounts with the handle of a login form, and those among them whose
\* stored digest is the digest of the form's password
FormAccounts(form) == { u \in users : u.username = form.username }
FormMatches(form) ==
    { u \in FormAccounts(form) :
        u.hashed_password = Sha256(form.password \o config.PASSWORD_SALT) }

\* C14: login returns a token only for an existing, active account whose
\* stored digest the password verifies against, and the token's subject is
\* that account's handle; an unknown handle and a wrong password get the
\* same 401; a correct password for an inactive account is rejected; and a
\* rejected login issues no token.
C14_LoginGate ==
    /\ [](resp.op = "login" =>
             LET form == resp.form
                 r == resp.result
             IN /\ r.ok =>
                      \E u \in FormMatches(form) :
                          /\ u.is_active
                          /\ \E i \in LoginIssued :
                                /\ i.token = r.access_token
                                /\ i.token.payload["sub"] = u.username
                /\ FormAccounts(form) = {} => r = IncorrectCredentials
                /\ FormMatches(form) = {} => r = IncorrectCredentials
                /\ (\E u \in FormMatches(form) : ~u.is_active) => ~r.ok)
    /\ [][ (resp'.op = "login" /\ ~resp'.result.ok) => issued' = issued
        ]_vars

\* The right password of an inactive account was refused
C14_Witness ==
    /\ resp.op = "login"
    /\ \E u \in FormMatches(resp.form) : ~u.is_active
    /\ resp.result = HTTPException(400, "Inactive user")
    /\ issued = {}

\* The kind of a verification outcome: success with the subject, expired,
\* invalid, or an exception neither verification handles
Kind(r) ==
    IF r.ok THEN [kind |-> "success", subject |-> r.username]
    ELSE IF r = ExpiredToken THEN [kind |-> "expired", subject |-> ""]
    ELSE IF r = InvalidToken THEN [kind |-> "invalid", subject |-> ""]
    ELSE [kind |-> "unhandled", subject |-> ""]

\* A token whose subject is absent or a string
ReadableSubject(tk) ==
    "sub" \in DOMAIN tk.payload => isinstance_str(tk.payload["sub"])

\* C15: for every token and every clock value, auth.verify_token and the
\* verification written out in get_current_user yield the same kind of
\* outcome: success with the same subject, expired, or invalid.
C15_VerifiersEquivalent ==
    resp.op = "verify_both" => Kind(resp.auth) = Kind(resp.inline)

\* The two agree on every token whose subject is absent or a string, and on
\* every token when the bound PyJWT release validates the subject.
EquivalentOnReadableSubjects ==
    (resp.op = "verify_both"
       /\ (ReadableSubject(resp.token) \/ ValidatesSub(config.jwt)))
    => Kind(resp.auth) = Kind(resp.inline)

====
